---- MODULE Spec2Model ----
(***************************************************************************)
(* Real-time message delivery subsystem of the backend: the connection     *)
(* registry (ConnectionManager), the per-operation fan-out, the message    *)
(* history (InMemoryStorage._ws_messages), replay and acknowledgment as    *)
(* driven by the websocket endpoint.                                       *)
(*                                                                         *)
(* Scheduling model: one asyncio event loop.  The bodies guarded by        *)
(* ConnectionManager._lock contain no await, so the lock is never found    *)
(* held and acquiring it never suspends; the only suspension points are    *)
(* the transport calls (send_json / receive_json).  Every action below is  *)
(* the code between two suspension points.                                 *)
(*                                                                         *)
(* Transport assumption: a send on a websocket succeeds while the client   *)
(* side is open and raises once it is closed; frames the client sent       *)
(* before closing may still be read by the handler.  The handler's own     *)
(* frames (connection, subscribed, replayed, error) are taken to           *)
(* serialize; they are not recorded, only their failure is.  A send that   *)
(* returns at once is one step (SendMessage); a send that stays in         *)
(* progress is two (SendSuspend, SendResume).                              *)
(*                                                                         *)
(* The session service (AuthService over InMemoryStorage._sessions) is     *)
(* modelled beside it; refresh_session suspends at verify_token.           *)
(***************************************************************************)
EXTENDS Integers, Sequences, FiniteSets, TLC

\* ------------------------------------------------------------------ bounds
Conns == {"c1", "c2"}                 \* connection ids (uuid4, never reused)
Ops == {"opA", "opB"}                 \* operation ids
MaxSeq == 2                           \* producers stamp sequences 0..MaxSeq
MaxPublish == 3                       \* number of broadcast_to_operation calls
MaxReplays == 1                       \* number of replay frames handled
MaxAck == 2                           \* acknowledge frames carry 0..MaxAck
MaxFanoutPublish == 2                 \* broadcasts in the fan-out scenario
MaxReplayPublish == 2                 \* broadcasts in the replay scenario
MaxTime == 10                         \* the clock stops advancing here
TickMinutes == 10                     \* minutes per clock step
ElapseMinutes == 6                    \* a shorter clock step (retention scenario)
MaxRetentionTime == 12                \* the clock of the retention scenario stops here
MaxRetentionPublish == 2              \* broadcasts in the retention scenario
MaxRecordPublish == 2                 \* broadcasts in the record scenario
MaxBoundaryPublish == 2               \* broadcasts in the boundary scenario
MaxLockPublish == 2                   \* broadcasts in the lock scenario
MaxSlowPublish == 3                   \* broadcasts in the slow-subscriber scenario
MaxRemovalPublish == 2                \* broadcasts in the removal scenario
MaxAdmissionPublish == 1              \* broadcasts in the admission scenario
MaxTerminationPublish == 1            \* broadcasts in the termination scenario
MaxAgreementPublish == 2              \* broadcasts in the agreement scenario
MaxAgreementTime == 11                \* the clock of the agreement scenario stops here
MaxReadGap == 1                       \* minutes between the two clock reads of one cleanup
AuthElapseMinutes == 1000              \* minutes per step of the session clock
MaxAuthTime == 3000                   \* the session clock stops here

\* ConnectionManager.MESSAGE_RETENTION_MINUTES
MESSAGE_RETENTION_MINUTES == 10

\* the sequence generate_spec stamps on its ERROR message
ERROR_SEQUENCE == 999

\* AuthService.SESSION_DURATION_HOURS
SESSION_DURATION_HOURS == 24

SessionIds == {"s1", "s2"}            \* session ids (token_urlsafe, never reused)

Requests == {"r1", "r2"}              \* generate requests

Sequences == 0..MaxSeq
AckValues == 0..MaxAck
\* the from_sequence key of a replay frame: absent, or -1..MaxSeq
ReplayFrames == {[given |-> FALSE, value |-> 0]}
                    \cup {[given |-> TRUE, value |-> n] : n \in -1..MaxSeq}

VARIABLES
    connections,              \* ConnectionManager._connections (its keys)
    connection_sessions,      \* ConnectionManager._connection_sessions (keys)
    operation_subscriptions,  \* ConnectionManager._operation_subscriptions
    message_queues,           \* ConnectionManager._message_queues
    ws_messages,              \* InMemoryStorage._ws_messages
    ws_sessions,              \* InMemoryStorage._ws_sessions
    transport,                \* client side of each websocket
    pc,                       \* position of each websocket_endpoint coroutine
    tasks,                    \* send_message calls in flight
    received,                 \* messages written to each websocket by send_message
    next_id,                  \* next message_id to hand out
    now,                      \* datetime.utcnow(), in minutes
    fanout,                   \* per broadcast: subscribers at the call, snapshot, failed sends
    bresult,                  \* per broadcast: running / returned / raised
    raised,                   \* calls that raised to their caller
    ack_high,                 \* per connection: highest value acknowledged so far
    ack_last,                 \* per connection: value of the latest acknowledge frame
    disconnect_calls,         \* per connection: disconnect() calls so far (capped)
    replays,                  \* replay frames handled so far
    operations,               \* InMemoryStorage._operations
    last_cleanup,             \* the time of the latest cleanup_old_messages call
    workflow,                 \* per generate request: position, sequence counter, emitted
    stats,                    \* the latest answer of GET /ws/stats
    lock,                     \* holder of ConnectionManager._lock
    auth_sessions,            \* InMemoryStorage._sessions (its keys)
    session_objects,          \* the AuthSession object of each session id
    refreshing,               \* refresh_session calls awaiting verify_token
    logged_out,               \* session ids whose logout returned True
    auth_response             \* the latest answer of the auth service

vars == <<connections, connection_sessions, operation_subscriptions,
          message_queues, ws_messages, ws_sessions, transport, pc, tasks,
          received, next_id, now, fanout, bresult, raised, ack_high,
          ack_last, disconnect_calls, replays, operations, last_cleanup, workflow,
          stats, lock, auth_sessions, session_objects, refreshing, logged_out, auth_response>>

registry == <<connections, connection_sessions, operation_subscriptions, ws_sessions>>

auth == <<auth_sessions, session_objects, refreshing, logged_out, auth_response>>

\* ------------------------------------------------------------------ dicts
EmptyDict == [k \in {} |-> {}]

DictSet(d, k, v) == [x \in (DOMAIN d) \cup {k} |-> IF x = k THEN v ELSE d[x]]

DictDel(d, k) == [x \in (DOMAIN d) \ {k} |-> d[x]]

\* dict.get(k, default)
DictGet(d, k, default) == IF k \in DOMAIN d THEN d[k] ELSE default

Range(s) == {s[i] : i \in 1..Len(s)}

\* ------------------------------------------------------------------ messages
WebSocketMessage(id, op, seq, fin, ts) ==
    [message_id |-> id, operation_id |-> op, sequence |-> seq,
     is_final |-> fin, timestamp |-> ts]

WebSocketSession ==
    [active_operations |-> <<>>, last_message_sequence |-> 0,
     acknowledged_sequence |-> 0, is_connected |-> TRUE]

\* sorted(messages, key=lambda m: m.sequence): a stable insertion sort
RECURSIVE InsertBySequence(_, _)
InsertBySequence(sorted, m) ==
    IF sorted = <<>> THEN <<m>>
    ELSE IF Head(sorted).sequence <= m.sequence
         THEN <<Head(sorted)>> \o InsertBySequence(Tail(sorted), m)
         ELSE <<m>> \o sorted

RECURSIVE SortBySequence(_)
SortBySequence(s) ==
    IF s = <<>> THEN <<>>
    ELSE InsertBySequence(SortBySequence(SubSeq(s, 1, Len(s) - 1)), s[Len(s)])


\* ------------------------------------------------------------------ storage
\* mutant: the message is not appended to the history
AppendSkipped(store, message) == store

\* InMemoryStorage.add_ws_message: an unconditional append
add_ws_message(store, message) ==
    DictSet(store, message.operation_id,
            Append(DictGet(store, message.operation_id, <<>>), message))

\* InMemoryStorage.get_ws_messages; from_sequence is [given, value]
get_ws_messages(store, operation_id, from_sequence) ==
    LET messages == DictGet(store, operation_id, <<>>)
        kept == IF from_sequence.given
                THEN SelectSeq(messages, LAMBDA m : m.sequence >= from_sequence.value)
                ELSE messages
    IN  SortBySequence(kept)

\* mutant: the cleanup keeps every message
RetainedAlways(m, cutoff_time) == TRUE

\* the retention test of both cleanups: m.timestamp > cutoff_time
Retained(m, cutoff_time) == m.timestamp > cutoff_time

\* mutant: the cleanup filters every list and keeps the emptied keys
CleanupKeepsEmptyKeys(store, cutoff_time) ==
    [op \in DOMAIN store |->
        SelectSeq(store[op], LAMBDA m : Retained(m, cutoff_time))]

\* InMemoryStorage.cleanup_old_ws_messages / the queue part of
\* ConnectionManager.cleanup_old_messages: filter every list, drop empty keys
cleanup_old_ws_messages(store, cutoff_time) ==
    LET kept(op) == SelectSeq(store[op], LAMBDA m : Retained(m, cutoff_time))
    IN  [op \in {o \in DOMAIN store : kept(o) # <<>>} |-> kept(op)]

\* sum(len(msgs) for msgs in store.values()), over the keys in keys
RECURSIVE SumOfLengths(_, _)
SumOfLengths(store, keys) ==
    IF keys = {} THEN 0
    ELSE LET k == CHOOSE x \in keys : TRUE
         IN  Len(store[k]) + SumOfLengths(store, keys \ {k})

\* InMemoryStorage.get_stats: "total_ws_messages"
total_ws_messages(store) == SumOfLengths(store, DOMAIN store)

\* ------------------------------------------------------------------ registry
\* mutant: pop without a default raises KeyError on a missing key
PopWithoutDefaultRaises(keys, k) == k \notin keys

\* dict.pop(connection_id, None) never raises on a missing key
PopRaises(keys, k) == FALSE

\* mutant: disconnect leaves the subscriber sets alone
DisconnectKeepsSubscriptions(subs, c) == subs

\* the subscription loop of ConnectionManager.disconnect
DisconnectSubscriptions(subs, c) ==
    [op \in {o \in DOMAIN subs : subs[o] \ {c} # {}} |-> subs[op] \ {c}]

\* mutant: disconnect leaves the stored session as it is
DisconnectKeepsFlag(sessions, c) == sessions

\* the session update of ConnectionManager.disconnect
DisconnectSession(sessions, c) ==
    IF c \in DOMAIN sessions
    THEN [sessions EXCEPT ![c].is_connected = FALSE]
    ELSE sessions

CountCall(n) == IF n < 2 THEN n + 1 ELSE n

\* ConnectionManager.disconnect(c), as a conjunct of the calling action; it
\* goes on once "async with self._lock" has the lock
disconnect(c) ==
    /\ lock = "none"
    /\ disconnect_calls' = [disconnect_calls EXCEPT ![c] = CountCall(@)]
    /\ IF PopRaises(connections, c)
       THEN /\ raised' = raised \cup {"disconnect"}
            /\ UNCHANGED registry
       ELSE /\ connections' = connections \ {c}
            /\ connection_sessions' = connection_sessions \ {c}
            /\ operation_subscriptions' =
                   DisconnectSubscriptions(operation_subscriptions, c)
            /\ ws_sessions' = DisconnectSession(ws_sessions, c)
            /\ UNCHANGED raised

\* ConnectionManager.subscribe_to_operation: the subscriber set
SubscribeSubscriptions(subs, c, op) ==
    DictSet(subs, op, DictGet(subs, op, {}) \cup {c})

\* mutant: the operation is appended without the membership test
SubscribeAppendsAlways(sessions, c, op) ==
    IF c \in DOMAIN sessions
    THEN [sessions EXCEPT ![c].active_operations = Append(@, op)]
    ELSE sessions

\* ConnectionManager.subscribe_to_operation: the session
SubscribeSession(sessions, c, op) ==
    IF c \in DOMAIN sessions /\ op \notin Range(sessions[c].active_operations)
    THEN [sessions EXCEPT ![c].active_operations = Append(@, op)]
    ELSE sessions

\* mutant: unsubscribe leaves an emptied subscriber set in the map
UnsubscribeKeepsEmptySet(subs, c, op) ==
    IF op \in DOMAIN subs THEN [subs EXCEPT ![op] = @ \ {c}] ELSE subs

\* ConnectionManager.unsubscribe_from_operation: the subscriber set
UnsubscribeSubscriptions(subs, c, op) ==
    IF op \in DOMAIN subs
    THEN IF subs[op] \ {c} = {}
         THEN DictDel(subs, op)
         ELSE [subs EXCEPT ![op] = @ \ {c}]
    ELSE subs

\* list.remove(op): drops the first occurrence
RECURSIVE ListRemove(_, _)
ListRemove(s, x) ==
    IF s = <<>> THEN <<>>
    ELSE IF Head(s) = x THEN Tail(s)
         ELSE <<Head(s)>> \o ListRemove(Tail(s), x)

\* ConnectionManager.unsubscribe_from_operation: the session
UnsubscribeSession(sessions, c, op) ==
    IF c \in DOMAIN sessions /\ op \in Range(sessions[c].active_operations)
    THEN [sessions EXCEPT ![c].active_operations = ListRemove(@, op)]
    ELSE sessions


\* ------------------------------------------------------------------ delivery
\* a send_message call in flight.  kind "bcast": one task per subscriber of a
\* broadcast (asyncio.gather); kind "replay": the loop of replay_messages,
\* messages being what is still to send.  failing: send_json has raised and
\* the except branch has not run yet.  from_sequence, retained and sent record
\* the replay call's argument, the history at the call and what it has sent;
\* count is the value replay_messages returns, len(messages).  sending: the
\* call is suspended in websocket.send_json.
BroadcastTask(c, message) ==
    [kind |-> "bcast", connection_id |-> c, message_id |-> message.message_id,
     operation_id |-> message.operation_id, messages |-> <<message>>,
     failing |-> FALSE, from_sequence |-> 0, retained |-> <<>>, sent |-> <<>>,
     count |-> 0, sending |-> FALSE]

ReplayTask(c, op, from_sequence, messages, history) ==
    [kind |-> "replay", connection_id |-> c, message_id |-> 0,
     operation_id |-> op, messages |-> messages,
     failing |-> FALSE, from_sequence |-> from_sequence, retained |-> history,
     sent |-> <<>>, count |-> Len(messages), sending |-> FALSE]

\* the task once send_message has returned for its current message
TaskAdvance(t, delivered) ==
    [t EXCEPT !.messages = Tail(@), !.failing = FALSE, !.sending = FALSE,
              !.sent = IF delivered /\ t.kind = "replay"
                       THEN Append(@, Head(t.messages)) ELSE @]

\* the tasks in flight once send_message has returned for t
TasksAfter(ts, t, delivered) ==
    IF t.kind = "bcast"
    THEN ts \ {t}
    ELSE (ts \ {t}) \cup {TaskAdvance(t, delivered)}

\* mutant: a failed send cancels the other sends of its broadcast
GatherCancelsSiblings(ts, t) ==
    {u \in ts : ~(u.kind = "bcast" /\ u.message_id = t.message_id)}

\* asyncio.gather(..., return_exceptions=True): a failed send leaves the
\* sibling sends of the same broadcast running
GatherSiblings(ts, t) == ts

\* mutant: the exception of a failed send reaches the producer
PublishPropagates(send_failed) == send_failed

\* try/except in send_message and return_exceptions=True in the gather:
\* a failed send never reaches the caller of broadcast_to_operation
PublishRaises(send_failed) == FALSE

\* mutant: the except branch only logs
FailureOnlyLogs(c) == FALSE

\* the except branch of send_message calls disconnect
FailureDisconnects(c) == TRUE

\* broadcast_to_operation returns once every gathered send has returned
BroadcastResult(ts, t, send_failed) ==
    IF t.kind # "bcast" THEN bresult
    ELSE IF PublishRaises(send_failed)
         THEN [bresult EXCEPT ![t.message_id] = "raised"]
         ELSE IF \E u \in ts : u.kind = "bcast" /\ u.message_id = t.message_id
              THEN bresult
              ELSE [bresult EXCEPT ![t.message_id] = "returned"]

\* mutant: the gathered sends of a broadcast run one after the other
GatherSequential(ts, t) ==
    ~\E u \in ts : /\ u.kind = "bcast" /\ t.kind = "bcast"
                   /\ u.message_id = t.message_id
                   /\ u.connection_id = "c1" /\ t.connection_id = "c2"

\* asyncio.gather wraps every send in a task of its own: each is ready to
\* run whatever its siblings are waiting for
GatherReady(ts, t) == TRUE

\* mutant: send_json is awaited inside "async with self._lock"
SendHoldsLock(c) == c

\* send_message leaves "async with self._lock" before it awaits send_json
LockDuringSend(c) == "none"

\* mutant: the except branch runs inside "async with self._lock"
ExceptHoldsLock(c) == c

\* the try/except of send_message comes after "async with self._lock": the
\* lock is free when the except branch calls disconnect
LockDuringExcept(c) == "none"

\* send_message up to the outcome of websocket.send_json: the lookup
\* self._connections.get(c) under the lock, then nothing (no websocket), a
\* delivered message, or an exception in flight
SendMessage(t) ==
    /\ t \in tasks
    /\ t.messages # <<>>
    /\ ~t.failing
    /\ ~t.sending
    /\ lock = "none"
    /\ GatherReady(tasks, t)
    /\ LET c == t.connection_id
       IN  IF c \notin connections
           THEN /\ tasks' = TasksAfter(tasks, t, FALSE)
                /\ bresult' = BroadcastResult(tasks', t, FALSE)
                /\ UNCHANGED received
           ELSE IF transport[c] = "open"
           THEN /\ received' = [received EXCEPT ![c] = Append(@, Head(t.messages))]
                /\ tasks' = TasksAfter(tasks, t, TRUE)
                /\ bresult' = BroadcastResult(tasks', t, FALSE)
           ELSE /\ tasks' = (tasks \ {t}) \cup {[t EXCEPT !.failing = TRUE]}
                /\ UNCHANGED <<bresult, received>>
    /\ lock' = IF t.connection_id \in connections /\ transport[t.connection_id] # "open"
               THEN LockDuringExcept(t.connection_id) ELSE lock
    /\ UNCHANGED <<registry, message_queues, ws_messages, transport, pc,
                   next_id, now, fanout, raised, ack_high, ack_last, disconnect_calls,
                   replays, operations, last_cleanup, workflow,
                   stats, auth>>

\* send_message up to a websocket.send_json that does not return at once:
\* the lookup under the lock found the websocket and the send is in progress
SendSuspend(t) ==
    /\ t \in tasks
    /\ t.messages # <<>>
    /\ ~t.failing
    /\ ~t.sending
    /\ lock = "none"
    /\ GatherReady(tasks, t)
    /\ t.connection_id \in connections
    /\ tasks' = (tasks \ {t}) \cup {[t EXCEPT !.sending = TRUE]}
    /\ lock' = LockDuringSend(t.connection_id)
    /\ UNCHANGED <<registry, message_queues, ws_messages, transport, pc, received,
                   next_id, now, fanout, bresult, raised, ack_high, ack_last,
                   disconnect_calls, replays, operations, last_cleanup, workflow,
                   stats, auth>>

\* the suspended websocket.send_json returns, or raises
SendResume(t) ==
    /\ t \in tasks
    /\ t.sending
    /\ IF transport[t.connection_id] = "open"
       THEN /\ received' = [received EXCEPT ![t.connection_id] =
                                Append(@, Head(t.messages))]
            /\ tasks' = TasksAfter(tasks, t, TRUE)
            /\ bresult' = BroadcastResult(tasks', t, FALSE)
       ELSE /\ tasks' = (tasks \ {t}) \cup
                            {[t EXCEPT !.failing = TRUE, !.sending = FALSE]}
            /\ UNCHANGED <<bresult, received>>
    /\ lock' = IF transport[t.connection_id] # "open"
               THEN LockDuringExcept(t.connection_id) ELSE lock
    /\ UNCHANGED <<registry, message_queues, ws_messages, transport, pc,
                   next_id, now, fanout, raised, ack_high, ack_last, disconnect_calls,
                   replays, operations, last_cleanup, workflow,
                   stats, auth>>

\* the except branch of send_message: log, then disconnect(connection_id)
SendFailed(t) ==
    /\ t \in tasks
    /\ t.failing
    /\ IF FailureDisconnects(t.connection_id)
       THEN disconnect(t.connection_id)
       ELSE UNCHANGED <<registry, raised, disconnect_calls>>
    /\ tasks' = GatherSiblings(TasksAfter(tasks, t, FALSE), t)
    /\ bresult' = BroadcastResult(tasks', t, TRUE)
    /\ fanout' = IF t.kind = "bcast"
                 THEN [fanout EXCEPT ![t.message_id].failed = @ \cup {t.connection_id}]
                 ELSE fanout
    /\ UNCHANGED <<message_queues, ws_messages, transport, pc, received,
                   next_id, now, ack_high, ack_last, replays, operations, last_cleanup, workflow,
                   stats, lock, auth>>

\* mutant: only one subscriber is taken
SnapshotOneSubscriber(subs, op) ==
    LET all == DictGet(subs, op, {})
    IN  IF all = {} THEN {} ELSE {CHOOSE c \in all : TRUE}

\* list(self._operation_subscriptions.get(operation_id, set()))
SubscriberSnapshot(subs, op) == DictGet(subs, op, {})

\* ConnectionManager.broadcast_to_operation up to the gather, as a conjunct
\* of the calling action
broadcast_to_operation(op, seq, fin) ==
    /\ lock = "none"
    /\ LET message == WebSocketMessage(next_id, op, seq, fin, now)
           subscriber_ids == SubscriberSnapshot(operation_subscriptions, op)
       IN  /\ message_queues' = add_ws_message(message_queues, message)
           /\ ws_messages' = add_ws_message(ws_messages, message)
           /\ tasks' = tasks \cup {BroadcastTask(c, message) : c \in subscriber_ids}
           /\ fanout' = DictSet(fanout, next_id,
                                [message |-> message,
                                 subscribed |-> DictGet(operation_subscriptions, op, {}),
                                 subscriber_ids |-> subscriber_ids,
                                 failed |-> {}])
           /\ bresult' = DictSet(bresult, next_id,
                                 IF subscriber_ids = {} THEN "returned" ELSE "running")
    /\ next_id' = next_id + 1
    /\ UNCHANGED <<registry, transport, pc, received, now, raised, ack_high, ack_last,
                   disconnect_calls, replays, operations, last_cleanup,
                   stats, lock, auth>>

\* documents._emit_ws_message called by some producer with a sequence and a
\* final flag of its choice
Publish(op, seq, fin) ==
    /\ next_id <= MaxPublish
    /\ broadcast_to_operation(op, seq, fin)
    /\ UNCHANGED workflow

\* ------------------------------------------------------------------ producers
\* generate_spec (generate_plan and generate_task stamp their messages the
\* same way) for a request that carries an operation_id.  pc: the next step;
\* sequence: the local counter; awaiting: the broadcast the request waits
\* for (0: none); emitted: the sequence numbers stamped so far.
GenerateRequest ==
    [pc |-> "idle", operation_id |-> "none", enable_copilot |-> FALSE,
     sequence |-> 0, awaiting |-> 0, emitted |-> <<>>]

\* await connection_manager.broadcast_to_operation(...) has returned
Awaited(r) ==
    \/ workflow[r].awaiting = 0
    \/ bresult[workflow[r].awaiting] = "returned"

\* the failure path stamps sequence=999
ErrorSequence(sequence) == ERROR_SEQUENCE

\* one _emit_ws_message call of request r, up to the gather of its broadcast
Emit(r, seq, fin, next_pc, next_sequence) ==
    /\ Awaited(r)
    /\ broadcast_to_operation(workflow[r].operation_id, seq, fin)
    /\ workflow' = [workflow EXCEPT ![r].pc = next_pc,
                                    ![r].sequence = next_sequence,
                                    ![r].awaiting = next_id,
                                    ![r].emitted = Append(@, seq)]

\* the request arrives: sequence = 0, "Starting spec generation..."
GenerateStart(r, op, enable_copilot) ==
    /\ workflow[r].pc = "idle"
    /\ broadcast_to_operation(op, 0, FALSE)
    /\ workflow' = [workflow EXCEPT ![r] =
                        [pc |-> IF enable_copilot THEN "thinking" ELSE "progress",
                         operation_id |-> op, enable_copilot |-> enable_copilot,
                         sequence |-> 1, awaiting |-> next_id, emitted |-> <<0>>]]

\* "Copilot CLI is generating your specification..."
GenerateThinking(r) ==
    /\ workflow[r].pc = "thinking"
    /\ Emit(r, workflow[r].sequence, FALSE, "progress", workflow[r].sequence + 1)

\* _run_with_progress: the PROGRESS message, then the generator runs
GenerateProgress(r) ==
    /\ workflow[r].pc = "progress"
    /\ Emit(r, workflow[r].sequence, FALSE, "running", workflow[r].sequence + 1)

\* the generator returned: the COMPLETE message, is_final=True
GenerateComplete(r) ==
    /\ workflow[r].pc = "running"
    /\ Emit(r, workflow[r].sequence, TRUE, "done", workflow[r].sequence)

\* the generator raised: the ERROR message, is_final=True
GenerateFailed(r) ==
    /\ workflow[r].pc = "running"
    /\ Emit(r, ErrorSequence(workflow[r].sequence), TRUE, "failed",
            workflow[r].sequence)

\* ConnectionManager.cleanup_old_messages (POST /ws/cleanup)
Cleanup ==
    /\ LET cutoff_time == now - MESSAGE_RETENTION_MINUTES
       IN  /\ ws_messages' = cleanup_old_ws_messages(ws_messages, cutoff_time)
           /\ message_queues' = cleanup_old_ws_messages(message_queues, cutoff_time)
    /\ last_cleanup' = now
    /\ UNCHANGED <<registry, transport, pc, tasks, received, next_id, now,
                   fanout, bresult, raised, ack_high, ack_last, disconnect_calls,
                   replays, operations, workflow,
                   stats, lock, auth>>

\* ConnectionManager.cleanup_old_messages when the clock advances by gap
\* between the utcnow() of storage.cleanup_old_ws_messages and the manager's
\* own utcnow() for the in-memory queues
CleanupAcross(gap) ==
    /\ now + gap <= MaxAgreementTime
    /\ ws_messages' =
           cleanup_old_ws_messages(ws_messages, now - MESSAGE_RETENTION_MINUTES)
    /\ message_queues' =
           cleanup_old_ws_messages(message_queues,
                                   (now + gap) - MESSAGE_RETENTION_MINUTES)
    /\ last_cleanup' = now
    /\ now' = now + gap
    /\ UNCHANGED <<registry, transport, pc, tasks, received, next_id,
                   fanout, bresult, raised, ack_high, ack_last, disconnect_calls,
                   replays, operations, workflow,
                   stats, lock, auth>>

\* the wall clock advances by one minute
Minute ==
    /\ now < MaxAgreementTime
    /\ now' = now + 1
    /\ UNCHANGED <<registry, message_queues, ws_messages, transport, pc, tasks,
                   received, next_id, fanout, bresult, raised, ack_high, ack_last,
                   disconnect_calls, replays, operations, last_cleanup, workflow,
                   stats, lock, auth>>

\* the wall clock advances
Tick ==
    /\ now < MaxTime
    /\ now' = now + TickMinutes
    /\ UNCHANGED <<registry, message_queues, ws_messages, transport, pc, tasks,
                   received, next_id, fanout, bresult, raised, ack_high, ack_last,
                   disconnect_calls, replays, operations, last_cleanup, workflow,
                   stats, lock, auth>>

\* the wall clock advances by a part of the retention window
Elapse ==
    /\ now < MaxRetentionTime
    /\ now' = now + ElapseMinutes
    /\ UNCHANGED <<registry, message_queues, ws_messages, transport, pc, tasks,
                   received, next_id, fanout, bresult, raised, ack_high, ack_last,
                   disconnect_calls, replays, operations, last_cleanup, workflow,
                   stats, lock, auth>>

\* the Operation record: the fields the retention property reads
Operation(status, result) == [status |-> status, result |-> result]

OperationStatus == {"RUNNING", "COMPLETED"}

\* InMemoryStorage.save_operation
SaveOperation(op, status) ==
    /\ operations' = DictSet(operations, op,
                             Operation(status, IF status = "COMPLETED"
                                               THEN "result" ELSE "none"))
    /\ UNCHANGED <<registry, message_queues, ws_messages, transport, pc, tasks,
                   received, next_id, now, fanout, bresult, raised, ack_high,
                   ack_last, disconnect_calls, replays, last_cleanup, workflow,
                   stats, lock, auth>>

\* InMemoryStorage.get_operation: self._operations.get(operation_id), None
\* being the record without a status
get_operation(store, op) == DictGet(store, op, Operation("None", "none"))


\* ------------------------------------------------------------------ endpoint
\* where the handler is after one of its own websocket.send_json calls: a
\* failed send raises, the error frame fails too, the loop breaks
AfterHandlerSend(c) == IF transport[c] = "open" THEN "loop" ELSE "closing"

\* websocket_endpoint up to the message loop: connection_manager.connect
Connect(c) ==
    /\ pc[c] = "idle"
    /\ transport' = [transport EXCEPT ![c] = "open"]
    /\ connections' = connections \cup {c}
    /\ connection_sessions' = connection_sessions \cup {c}
    /\ ws_sessions' = DictSet(ws_sessions, c, WebSocketSession)
    /\ pc' = [pc EXCEPT ![c] = "loop"]
    /\ UNCHANGED <<operation_subscriptions, message_queues, ws_messages, tasks,
                   received, next_id, now, fanout, bresult, raised, ack_high, ack_last,
                   disconnect_calls, replays, operations, last_cleanup, workflow,
                   stats, lock, auth>>

\* the client goes away; later sends on this websocket raise
ClientClose(c) ==
    /\ transport[c] = "open"
    /\ transport' = [transport EXCEPT ![c] = "closed"]
    /\ UNCHANGED <<registry, message_queues, ws_messages, pc, tasks, received,
                   next_id, now, fanout, bresult, raised, ack_high, ack_last,
                   disconnect_calls, replays, operations, last_cleanup, workflow,
                   stats, lock, auth>>

\* frame {"type": "subscribe", "operation_id": op}
FrameSubscribe(c, op) ==
    /\ pc[c] = "loop"
    /\ operation_subscriptions' =
           SubscribeSubscriptions(operation_subscriptions, c, op)
    /\ ws_sessions' = SubscribeSession(ws_sessions, c, op)
    /\ pc' = [pc EXCEPT ![c] = AfterHandlerSend(c)]
    /\ UNCHANGED <<connections, connection_sessions, message_queues, ws_messages,
                   transport, tasks, received, next_id, now, fanout, bresult,
                   raised, ack_high, ack_last, disconnect_calls, replays, operations, last_cleanup, workflow,
                   stats, lock, auth>>

\* frame {"type": "unsubscribe", "operation_id": op}
FrameUnsubscribe(c, op) ==
    /\ pc[c] = "loop"
    /\ operation_subscriptions' =
           UnsubscribeSubscriptions(operation_subscriptions, c, op)
    /\ ws_sessions' = UnsubscribeSession(ws_sessions, c, op)
    /\ UNCHANGED <<connections, connection_sessions, message_queues, ws_messages,
                   transport, pc, tasks, received, next_id, now, fanout, bresult,
                   raised, ack_high, ack_last, disconnect_calls, replays, operations, last_cleanup, workflow,
                   stats, lock, auth>>

\* data.get("from_sequence", 0)
FrameFromSequence(frame) == IF frame.given THEN frame.value ELSE 0

\* mutant: the read starts at from_sequence itself
ReplayStartInclusive(from_sequence) == from_sequence

\* mutant: the read starts two above from_sequence
ReplayStartSkipsOne(from_sequence) == from_sequence + 2

\* replay_messages reads storage from from_sequence + 1 (inclusive)
ReplayStart(from_sequence) == from_sequence + 1

\* frame {"type": "replay", ...}: replay_messages up to its first send
FrameReplay(c, op, frame) ==
    /\ pc[c] = "loop"
    /\ replays < MaxReplays
    /\ LET from_sequence == FrameFromSequence(frame)
           messages == get_ws_messages(ws_messages, op,
                           [given |-> TRUE, value |-> ReplayStart(from_sequence)])
       IN  tasks' = tasks \cup {ReplayTask(c, op, from_sequence, messages,
                                           DictGet(ws_messages, op, <<>>))}
    /\ pc' = [pc EXCEPT ![c] = "replay"]
    /\ replays' = replays + 1
    /\ UNCHANGED <<registry, message_queues, ws_messages, transport, received,
                   next_id, now, fanout, bresult, raised, ack_high, ack_last,
                   disconnect_calls, operations, last_cleanup, workflow,
                   stats, lock, auth>>

\* replay_messages has returned: the handler sends "Replayed n messages"
ReplayComplete(c) ==
    /\ pc[c] = "replay"
    /\ \E t \in tasks :
          /\ t.kind = "replay" /\ t.connection_id = c /\ t.messages = <<>>
          /\ tasks' = tasks \ {t}
    /\ pc' = [pc EXCEPT ![c] = AfterHandlerSend(c)]
    /\ UNCHANGED <<registry, message_queues, ws_messages, transport, received,
                   next_id, now, fanout, bresult, raised, ack_high, ack_last,
                   disconnect_calls, replays, operations, last_cleanup, workflow,
                   stats, lock, auth>>

\* mutant: the acknowledged sequence is overwritten
AckOverwrite(current, sequence) == sequence

\* max(ws_session.acknowledged_sequence, sequence)
AckUpdate(current, sequence) == IF current >= sequence THEN current ELSE sequence

\* frame {"type": "acknowledge", "operation_id": op, "sequence": s}
FrameAcknowledge(c, op, s) ==
    /\ pc[c] = "loop"
    /\ ws_sessions' =
           IF c \in DOMAIN ws_sessions
           THEN [ws_sessions EXCEPT ![c].acknowledged_sequence = AckUpdate(@, s)]
           ELSE ws_sessions
    /\ ack_high' = [ack_high EXCEPT ![c] = IF @ < s THEN s ELSE @]
    /\ ack_last' = [ack_last EXCEPT ![c] = s]
    /\ UNCHANGED <<connections, connection_sessions, operation_subscriptions,
                   message_queues, ws_messages, transport, pc, tasks, received,
                   next_id, now, fanout, bresult, raised, disconnect_calls,
                   replays, operations, last_cleanup, workflow,
                   stats, lock, auth>>

\* an exception that the loop's "except Exception" does not catch (the
\* handler's task is cancelled) leaves the loop with the transport as it is
HandlerCancelled(c) ==
    /\ pc[c] = "loop"
    /\ pc' = [pc EXCEPT ![c] = "closing"]
    /\ UNCHANGED <<registry, message_queues, ws_messages, transport, tasks,
                   received, next_id, now, fanout, bresult, raised, ack_high,
                   ack_last, disconnect_calls, replays, operations, last_cleanup,
                   workflow, stats, lock, auth>>

\* mutant: the handler ends without its finally block
FinallySkipsDisconnect(c) == FALSE

\* finally: await connection_manager.disconnect(connection_id)
FinallyDisconnects(c) == TRUE

\* the loop ends (receive_json raises WebSocketDisconnect, or a handler send
\* failed) and the finally block calls connection_manager.disconnect
HandlerFinally(c) ==
    /\ \/ pc[c] = "closing"
       \/ pc[c] = "loop" /\ transport[c] = "closed"
    /\ IF FinallyDisconnects(c)
       THEN disconnect(c)
       ELSE UNCHANGED <<registry, raised, disconnect_calls>>
    /\ pc' = [pc EXCEPT ![c] = "done"]
    /\ UNCHANGED <<message_queues, ws_messages, transport, tasks, received,
                   next_id, now, fanout, bresult, ack_high, ack_last, replays, operations, last_cleanup, workflow,
                   stats, lock, auth>>

\* ------------------------------------------------------------------ introspection
NoStats == [active_connections |-> -1, active_operations |-> {}]

\* ConnectionManager.get_connection_count
get_connection_count(conns) == Cardinality(conns)

\* ConnectionManager.get_active_operations: the keys of the subscription map
get_active_operations(subs) == DOMAIN subs

\* GET /ws/stats
GetStats ==
    /\ stats' = [active_connections |-> get_connection_count(connections),
                 active_operations |-> get_active_operations(operation_subscriptions)]
    /\ UNCHANGED <<registry, message_queues, ws_messages, transport, pc, tasks,
                   received, next_id, now, fanout, bresult, raised, ack_high,
                   ack_last, disconnect_calls, replays, operations, last_cleanup,
                   workflow, lock, auth>>


\* ------------------------------------------------------------------ sessions
\* An AuthSession is one object: storage._sessions and a refresh_session call
\* suspended at verify_token hold the same object, so session_objects is the
\* heap and auth_sessions the keys under which storage holds an object.
NoSession == [created |-> FALSE, is_active |-> FALSE, expires_at |-> 0]

NoResponse == [call |-> "none", session_id |-> "none", result |-> "none",
               after_logout |-> FALSE, expired |-> FALSE]

\* what a call answered: result is "None", "True", "False" or the session_id
\* of the session returned (401 at the API when it is "None"); after_logout
\* and expired record whether the call began after a successful logout of
\* the id, and on a stored session past its expiry
Response(call, s, result, after, expired) ==
    [call |-> call, session_id |-> s, result |-> result,
     after_logout |-> after, expired |-> expired]

\* the session create_session builds at time t
AuthSession(t) ==
    [created |-> TRUE, is_active |-> TRUE,
     expires_at |-> t + SESSION_DURATION_HOURS * 60]

\* AuthSession.is_expired
is_expired(session, t) == t > session.expires_at

\* AuthSession.invalidate
invalidate(session) == [session EXCEPT !.is_active = FALSE]

\* InMemoryStorage.get_session: is a session returned
storage_get_session(stored, objects, s, t) ==
    /\ s \in stored
    /\ ~is_expired(objects[s], t)
    /\ objects[s].is_active

\* InMemoryStorage.save_session
save_session(stored, s) == stored \cup {s}

\* InMemoryStorage.delete_session: the map, and the value returned
delete_session(stored, s) == stored \ {s}

Deleted(stored, s) == s \in stored

StoredExpired(s) == s \in auth_sessions /\ is_expired(session_objects[s], now)

\* AuthService.logout(s), as a conjunct of the calling action
logout(s) ==
    /\ session_objects' =
           IF storage_get_session(auth_sessions, session_objects, s, now)
           THEN [session_objects EXCEPT ![s] = invalidate(@)]
           ELSE session_objects
    /\ auth_sessions' = delete_session(auth_sessions, s)
    /\ logged_out' = IF Deleted(auth_sessions, s)
                     THEN logged_out \cup {s} ELSE logged_out

\* AuthService.create_session, from the point where verify_token has answered
CreateSession(s) ==
    /\ ~session_objects[s].created
    /\ session_objects' = [session_objects EXCEPT ![s] = AuthSession(now)]
    /\ auth_sessions' = save_session(auth_sessions, s)
    /\ auth_response' = Response("create_session", s, s, FALSE, FALSE)
    /\ UNCHANGED <<registry, message_queues, ws_messages, transport, pc, tasks,
                   received, next_id, now, fanout, bresult, raised, ack_high,
                   ack_last, disconnect_calls, replays, operations, last_cleanup,
                   workflow, stats, lock, refreshing, logged_out>>

\* AuthService.get_session (GET /auth/verify)
GetSession(s) ==
    /\ IF ~storage_get_session(auth_sessions, session_objects, s, now)
       THEN /\ auth_response' = Response("get_session", s, "None",
                                         s \in logged_out, StoredExpired(s))
            /\ UNCHANGED <<auth_sessions, session_objects, logged_out>>
       ELSE IF is_expired(session_objects[s], now)
       THEN /\ logout(s)
            /\ auth_response' = Response("get_session", s, "None",
                                         s \in logged_out, StoredExpired(s))
       ELSE IF ~session_objects[s].is_active
       THEN /\ auth_response' = Response("get_session", s, "None",
                                         s \in logged_out, StoredExpired(s))
            /\ UNCHANGED <<auth_sessions, session_objects, logged_out>>
       ELSE /\ auth_sessions' = save_session(auth_sessions, s)
            /\ auth_response' = Response("get_session", s, s,
                                         s \in logged_out, StoredExpired(s))
            /\ UNCHANGED <<session_objects, logged_out>>
    /\ UNCHANGED <<registry, message_queues, ws_messages, transport, pc, tasks,
                   received, next_id, now, fanout, bresult, raised, ack_high,
                   ack_last, disconnect_calls, replays, operations, last_cleanup,
                   workflow, stats, lock, refreshing>>

\* AuthService.refresh_session up to its await of verify_token
RefreshStart(s) ==
    /\ \A r \in refreshing : r.session_id # s
    /\ IF ~storage_get_session(auth_sessions, session_objects, s, now)
       THEN /\ auth_response' = Response("refresh_session", s, "None",
                                         s \in logged_out, StoredExpired(s))
            /\ UNCHANGED refreshing
       ELSE /\ refreshing' = refreshing \cup
                   {[session_id |-> s, after_logout |-> s \in logged_out]}
            /\ UNCHANGED auth_response
    /\ UNCHANGED <<registry, message_queues, ws_messages, transport, pc, tasks,
                   received, next_id, now, fanout, bresult, raised, ack_high,
                   ack_last, disconnect_calls, replays, operations, last_cleanup,
                   workflow, stats, lock, auth_sessions, session_objects,
                   logged_out>>

\* AuthService.refresh_session after verify_token: GitHub accepted the token
\* (is_valid), or rejected it or failed
RefreshReturn(r, is_valid) ==
    /\ r \in refreshing
    /\ refreshing' = refreshing \ {r}
    /\ IF ~is_valid
       THEN /\ logout(r.session_id)
            /\ auth_response' = Response("refresh_session", r.session_id, "None",
                                         r.after_logout, FALSE)
       ELSE /\ auth_sessions' = save_session(auth_sessions, r.session_id)
            /\ auth_response' = Response("refresh_session", r.session_id,
                                         r.session_id, r.after_logout, FALSE)
            /\ UNCHANGED <<session_objects, logged_out>>
    /\ UNCHANGED <<registry, message_queues, ws_messages, transport, pc, tasks,
                   received, next_id, now, fanout, bresult, raised, ack_high,
                   ack_last, disconnect_calls, replays, operations, last_cleanup,
                   workflow, stats, lock>>

\* POST /auth/logout
Logout(s) ==
    /\ logout(s)
    /\ auth_response' = Response("logout", s,
                                 IF Deleted(auth_sessions, s) THEN "True" ELSE "False",
                                 s \in logged_out, StoredExpired(s))
    /\ UNCHANGED <<registry, message_queues, ws_messages, transport, pc, tasks,
                   received, next_id, now, fanout, bresult, raised, ack_high,
                   ack_last, disconnect_calls, replays, operations, last_cleanup,
                   workflow, stats, lock, refreshing>>

\* InMemoryStorage.cleanup_expired_sessions
CleanupExpiredSessions ==
    /\ auth_sessions' = {s \in auth_sessions :
                            ~(is_expired(session_objects[s], now)
                              \/ ~session_objects[s].is_active)}
    /\ UNCHANGED <<registry, message_queues, ws_messages, transport, pc, tasks,
                   received, next_id, now, fanout, bresult, raised, ack_high,
                   ack_last, disconnect_calls, replays, operations, last_cleanup,
                   workflow, stats, lock, session_objects, refreshing,
                   logged_out, auth_response>>

\* hours pass
ElapseHours ==
    /\ now + AuthElapseMinutes <= MaxAuthTime
    /\ now' = now + AuthElapseMinutes
    /\ UNCHANGED <<registry, message_queues, ws_messages, transport, pc, tasks,
                   received, next_id, fanout, bresult, raised, ack_high,
                   ack_last, disconnect_calls, replays, operations, last_cleanup,
                   workflow, stats, lock, auth>>


\* ------------------------------------------------------------------ admission
\* mutant: the endpoint connects whatever get_session answered
SessionAlwaysAccepted(found) == TRUE

\* "if not session": the endpoint goes on only with a session
SessionAccepted(found) == found

\* websocket_endpoint from its start, called with session_id s:
\* auth_service.get_session(s), then connect or close(1008) and return
WebsocketEndpoint(c, s) ==
    /\ pc[c] = "idle"
    /\ IF SessionAccepted(storage_get_session(auth_sessions, session_objects, s, now))
       THEN Connect(c)
       ELSE /\ pc' = [pc EXCEPT ![c] = "rejected"]
            /\ transport' = [transport EXCEPT ![c] = "closed"]
            /\ UNCHANGED <<registry, message_queues, ws_messages, tasks, received,
                           next_id, now, fanout, bresult, raised, ack_high,
                           ack_last, disconnect_calls, replays, operations,
                           last_cleanup, workflow, stats, lock, auth>>


\* ------------------------------------------------------------------ system
Init ==
    /\ connections = {}
    /\ connection_sessions = {}
    /\ operation_subscriptions = EmptyDict
    /\ message_queues = EmptyDict
    /\ ws_messages = EmptyDict
    /\ ws_sessions = EmptyDict
    /\ transport = [c \in Conns |-> "idle"]
    /\ pc = [c \in Conns |-> "idle"]
    /\ tasks = {}
    /\ received = [c \in Conns |-> <<>>]
    /\ next_id = 1
    /\ now = 0
    /\ fanout = EmptyDict
    /\ bresult = EmptyDict
    /\ raised = {}
    /\ ack_high = [c \in Conns |-> -1]
    /\ ack_last = [c \in Conns |-> -1]
    /\ disconnect_calls = [c \in Conns |-> 0]
    /\ replays = 0
    /\ operations = EmptyDict
    /\ last_cleanup = -1
    /\ workflow = [r \in Requests |-> GenerateRequest]
    /\ stats = NoStats
    /\ lock = "none"
    /\ auth_sessions = {}
    /\ session_objects = [s \in SessionIds |-> NoSession]
    /\ refreshing = {}
    /\ logged_out = {}
    /\ auth_response = NoResponse

Next ==
    \/ \E c \in Conns : Connect(c)
    \/ \E c \in Conns, s \in SessionIds : WebsocketEndpoint(c, s)
    \/ \E c \in Conns : ClientClose(c)
    \/ \E c \in Conns, op \in Ops : FrameSubscribe(c, op)
    \/ \E c \in Conns, op \in Ops : FrameUnsubscribe(c, op)
    \/ \E c \in Conns, op \in Ops, frame \in ReplayFrames : FrameReplay(c, op, frame)
    \/ \E c \in Conns : ReplayComplete(c)
    \/ \E c \in Conns, op \in Ops, s \in AckValues : FrameAcknowledge(c, op, s)
    \/ \E c \in Conns : HandlerCancelled(c)
    \/ \E c \in Conns : HandlerFinally(c)
    \/ \E op \in Ops, seq \in Sequences, fin \in BOOLEAN : Publish(op, seq, fin)
    \/ \E t \in tasks : SendMessage(t)
    \/ \E t \in tasks : SendSuspend(t)
    \/ \E t \in tasks : SendResume(t)
    \/ \E t \in tasks : SendFailed(t)
    \/ Cleanup
    \/ \E gap \in 1..MaxReadGap : CleanupAcross(gap)
    \/ Minute
    \/ Tick
    \/ Elapse
    \/ \E op \in Ops, status \in OperationStatus : SaveOperation(op, status)
    \/ \E r \in Requests, op \in Ops, enable_copilot \in BOOLEAN :
          GenerateStart(r, op, enable_copilot)
    \/ \E r \in Requests : GenerateThinking(r)
    \/ \E r \in Requests : GenerateProgress(r)
    \/ \E r \in Requests : GenerateComplete(r)
    \/ \E r \in Requests : GenerateFailed(r)
    \/ GetStats
    \/ \E s \in SessionIds : CreateSession(s)
    \/ \E s \in SessionIds : GetSession(s)
    \/ \E s \in SessionIds : RefreshStart(s)
    \/ \E r \in refreshing, is_valid \in BOOLEAN : RefreshReturn(r, is_valid)
    \/ \E s \in SessionIds : Logout(s)
    \/ CleanupExpiredSessions
    \/ ElapseHours

Spec == Init /\ [][Next]_vars


\* ------------------------------------------------------------------ scenarios
\* The same actions with the inputs each group of properties needs.

\* a producer marks the message stamped MaxSeq as its last
IsFinal(seq) == seq = MaxSeq

\* producers and the retention clock only: the history store
NextHistory ==
    \/ \E op \in Ops, seq \in Sequences : Publish(op, seq, IsFinal(seq))
    \/ Cleanup
    \/ Tick

SpecHistory == Init /\ [][NextHistory]_vars

\* one client that replays without subscribing, arbitrary producers and the
\* retention clock: what a replay selects and sends
NextReplay ==
    \/ Connect("c1")
    \/ ClientClose("c1")
    \/ \E frame \in ReplayFrames : FrameReplay("c1", "opA", frame)
    \/ ReplayComplete("c1")
    \/ HandlerFinally("c1")
    \/ next_id <= MaxReplayPublish
          /\ \E seq \in Sequences : Publish("opA", seq, IsFinal(seq))
    \/ \E t \in tasks : SendMessage(t)
    \/ \E t \in tasks : SendFailed(t)
    \/ Cleanup
    \/ Tick

SpecReplay == Init /\ [][NextReplay]_vars

\* one client and one producer workflow that stamps 0, 1, 2, ... in order:
\* subscribe, live delivery and replay
NextWorkflow ==
    \/ Connect("c1")
    \/ ClientClose("c1")
    \/ FrameSubscribe("c1", "opA")
    \/ \E frame \in ReplayFrames : FrameReplay("c1", "opA", frame)
    \/ ReplayComplete("c1")
    \/ HandlerFinally("c1")
    \/ Publish("opA", next_id - 1, IsFinal(next_id - 1))
    \/ \E t \in tasks : SendMessage(t)
    \/ \E t \in tasks : SendFailed(t)

SpecWorkflow == Init /\ [][NextWorkflow]_vars

\* two clients of one operation: fan-out with failing sends
NextFanout ==
    \/ \E c \in Conns : Connect(c)
    \/ \E c \in Conns : ClientClose(c)
    \/ \E c \in Conns : FrameSubscribe(c, "opA")
    \/ \E c \in Conns : HandlerFinally(c)
    \/ next_id <= MaxFanoutPublish /\ Publish("opA", next_id - 1, FALSE)
    \/ \E t \in tasks : SendMessage(t)
    \/ \E t \in tasks : SendFailed(t)

SpecFanout == Init /\ [][NextFanout]_vars

\* one client of two operations whose transport breaks while broadcasts and a
\* replay are in flight: the failed-send path and the handler's cleanup
NextFailure ==
    \/ Connect("c1")
    \/ ClientClose("c1")
    \/ \E op \in Ops : FrameSubscribe("c1", op)
    \/ \E op \in Ops : FrameUnsubscribe("c1", op)
    \/ FrameReplay("c1", "opA", [given |-> FALSE, value |-> 0])
    \/ ReplayComplete("c1")
    \/ HandlerFinally("c1")
    \/ next_id <= MaxFanoutPublish /\ Publish("opA", next_id - 1, FALSE)
    \/ \E t \in tasks : SendMessage(t)
    \/ \E t \in tasks : SendFailed(t)

SpecFailure == Init /\ [][NextFailure]_vars

\* two clients, two operations, no producer: subscriptions and acknowledgments
NextSession ==
    \/ \E c \in Conns : Connect(c)
    \/ \E c \in Conns : ClientClose(c)
    \/ \E c \in Conns, op \in Ops : FrameSubscribe(c, op)
    \/ \E c \in Conns, op \in Ops : FrameUnsubscribe(c, op)
    \/ \E c \in Conns, op \in Ops, seq \in AckValues : FrameAcknowledge(c, op, seq)
    \/ \E c \in Conns : HandlerFinally(c)

SpecSession == Init /\ [][NextSession]_vars

\* one client, one producer, the Operation record and a clock that moves in
\* steps shorter than the retention window: pruning
NextRetention ==
    \/ Connect("c1")
    \/ FrameReplay("c1", "opA", [given |-> TRUE, value |-> -1])
    \/ ReplayComplete("c1")
    \/ next_id <= MaxRetentionPublish /\ Publish("opA", next_id - 1, FALSE)
    \/ \E t \in tasks : SendMessage(t)
    \/ \E status \in OperationStatus : SaveOperation("opA", status)
    \/ Cleanup
    \/ Elapse

SpecRetention == Init /\ [][NextRetention]_vars

\* one subscribed client and the generate requests, all for one operation id
NextProducers ==
    \/ Connect("c1")
    \/ FrameSubscribe("c1", "opA")
    \/ \E r \in Requests, enable_copilot \in BOOLEAN :
          GenerateStart(r, "opA", enable_copilot)
    \/ \E r \in Requests : GenerateThinking(r)
    \/ \E r \in Requests : GenerateProgress(r)
    \/ \E r \in Requests : GenerateComplete(r)
    \/ \E r \in Requests : GenerateFailed(r)
    \/ \E t \in tasks : SendMessage(t)

SpecProducers == Init /\ [][NextProducers]_vars


\* two clients, two operations, no producer: what the introspection endpoint
\* answers
NextIntrospection ==
    \/ \E c \in Conns : Connect(c)
    \/ \E c \in Conns : ClientClose(c)
    \/ \E c \in Conns, op \in Ops : FrameSubscribe(c, op)
    \/ \E c \in Conns, op \in Ops : FrameUnsubscribe(c, op)
    \/ \E c \in Conns : HandlerFinally(c)
    \/ GetStats

SpecIntrospection == Init /\ [][NextIntrospection]_vars

\* the session service: two session ids, refreshes that wait for GitHub, and
\* a clock that passes the session lifetime
NextAuth ==
    \/ \E s \in SessionIds : CreateSession(s)
    \/ \E s \in SessionIds : GetSession(s)
    \/ \E s \in SessionIds : RefreshStart(s)
    \/ \E r \in refreshing, is_valid \in BOOLEAN : RefreshReturn(r, is_valid)
    \/ \E s \in SessionIds : Logout(s)
    \/ CleanupExpiredSessions
    \/ ElapseHours

SpecAuth == Init /\ [][NextAuth]_vars


\* a subscriber whose transport breaks and a second client that connects
\* later and replays the whole history
NextRecord ==
    \/ \E c \in Conns : Connect(c)
    \/ ClientClose("c1")
    \/ FrameSubscribe("c1", "opA")
    \/ FrameReplay("c2", "opA", [given |-> TRUE, value |-> -1])
    \/ ReplayComplete("c2")
    \/ \E c \in Conns : HandlerFinally(c)
    \/ next_id <= MaxRecordPublish /\ Publish("opA", next_id - 1, FALSE)
    \/ \E t \in tasks : SendMessage(t)
    \/ \E t \in tasks : SendFailed(t)

SpecRecord == Init /\ [][NextRecord]_vars


\* one client that subscribes and then replays while producers publish and
\* the transport may break
NextBoundary ==
    \/ Connect("c1")
    \/ ClientClose("c1")
    \/ FrameSubscribe("c1", "opA")
    \/ \E n \in {-1, 0} :
          /\ "c1" \in DictGet(operation_subscriptions, "opA", {})
          /\ FrameReplay("c1", "opA", [given |-> TRUE, value |-> n])
    \/ ReplayComplete("c1")
    \/ HandlerFinally("c1")
    \/ next_id <= MaxBoundaryPublish /\ Publish("opA", next_id - 1, FALSE)
    \/ \E t \in tasks : SendMessage(t)
    \/ \E t \in tasks : SendFailed(t)

SpecBoundary == Init /\ [][NextBoundary]_vars


\* two subscribers of one operation whose sends may stay in progress while
\* subscriptions change and one transport breaks
NextLock ==
    \/ \E c \in Conns : Connect(c)
    \/ ClientClose("c1")
    \/ \E c \in Conns : FrameSubscribe(c, "opA")
    \/ FrameUnsubscribe("c2", "opA")
    \/ HandlerFinally("c1")
    \/ next_id <= MaxLockPublish /\ Publish("opA", next_id - 1, FALSE)
    \/ \E t \in tasks : SendMessage(t)
    \/ \E t \in tasks : SendSuspend(t)
    \/ \E t \in tasks : SendResume(t)
    \/ \E t \in tasks : SendFailed(t)

SpecLock == Init /\ [][NextLock]_vars


\* send_message calls for connection c
SendTo(c) == \E t \in tasks : t.connection_id = c /\ SendMessage(t)

\* two subscribers of one operation: every send to c1 stays in progress for
\* ever, the sends to c2 return
NextSlow ==
    \/ \E c \in Conns : Connect(c)
    \/ \E c \in Conns : FrameSubscribe(c, "opA")
    \/ next_id <= MaxSlowPublish /\ Publish("opA", next_id - 1, FALSE)
    \/ \E t \in tasks : t.connection_id = "c1" /\ SendSuspend(t)
    \/ SendTo("c2")

\* the event loop runs every task that is ready: a send to c2 that can
\* proceed does proceed
SpecSlow == Init /\ [][NextSlow]_vars /\ WF_vars(SendTo("c2"))


\* steps of the send_message calls in flight
Sends ==
    \E t \in tasks : SendMessage(t) \/ SendResume(t) \/ SendFailed(t)

\* one client whose transport ends in every way: the client goes away, a
\* send fails, the handler is cancelled
NextRemoval ==
    \/ Connect("c1")
    \/ ClientClose("c1")
    \/ FrameSubscribe("c1", "opA")
    \/ FrameReplay("c1", "opA", [given |-> FALSE, value |-> 0])
    \/ ReplayComplete("c1")
    \/ HandlerCancelled("c1")
    \/ HandlerFinally("c1")
    \/ next_id <= MaxRemovalPublish /\ Publish("opA", next_id - 1, FALSE)
    \/ \E t \in tasks : SendMessage(t)
    \/ \E t \in tasks : SendSuspend(t)
    \/ \E t \in tasks : SendResume(t)
    \/ \E t \in tasks : SendFailed(t)

\* the event loop runs every coroutine that is ready: a send that can return
\* returns, a handler whose receive or send has raised reaches its finally
SpecRemoval ==
    /\ Init /\ [][NextRemoval]_vars
    /\ WF_vars(Sends)
    /\ WF_vars(ReplayComplete("c1"))
    /\ WF_vars(HandlerFinally("c1"))


\* two clients that present a session id which may be unknown, logged out or
\* expired, and one broadcast
NextAdmission ==
    \/ CreateSession("s1")
    \/ Logout("s1")
    \/ ElapseHours
    \/ \E c \in Conns, s \in SessionIds : WebsocketEndpoint(c, s)
    \/ \E c \in Conns : FrameSubscribe(c, "opA")
    \/ next_id <= MaxAdmissionPublish /\ Publish("opA", 0, FALSE)
    \/ \E t \in tasks : SendMessage(t)

SpecAdmission == Init /\ [][NextAdmission]_vars


\* a subscriber whose transport breaks while broadcasts and a replay send to
\* it, next to another client that connects and subscribes
NextTermination ==
    \/ \E c \in Conns : Connect(c)
    \/ ClientClose("c1")
    \/ \E c \in Conns : FrameSubscribe(c, "opA")
    \/ FrameReplay("c1", "opA", [given |-> FALSE, value |-> 0])
    \/ ReplayComplete("c1")
    \/ HandlerFinally("c1")
    \/ next_id <= MaxTerminationPublish /\ Publish("opA", next_id, FALSE)
    \/ \E t \in tasks : SendMessage(t)
    \/ \E t \in tasks : t.connection_id = "c1" /\ SendSuspend(t)
    \/ \E t \in tasks : SendResume(t)
    \/ \E t \in tasks : SendFailed(t)

\* every transport send completes or fails, and the event loop runs every
\* send_message call that is ready
SpecTermination == Init /\ [][NextTermination]_vars /\ WF_vars(Sends)


\* producers publish while the clock runs and cleanups are called, some of
\* them across a step of the clock
NextAgreement ==
    \/ \E op \in Ops :
          next_id <= MaxAgreementPublish /\ Publish(op, next_id - 1, FALSE)
    \/ Cleanup
    \/ \E gap \in 1..MaxReadGap : CleanupAcross(gap)
    \/ Minute

SpecAgreement == Init /\ [][NextAgreement]_vars


\* ------------------------------------------------------------------ properties
\* the history of op read from the start: storage.get_ws_messages(op, 0)
ReadFromStart(op) == get_ws_messages(ws_messages, op, [given |-> TRUE, value |-> 0])

\* C1: whatever was published, reading an operation's history from the start
\* returns every stored message of the operation, in strictly increasing
\* sequence order (so no sequence number twice).
C1_HistoryStrictlyIncreasing ==
    \A op \in Ops :
        LET h == ReadFromStart(op)
            stored == DictGet(ws_messages, op, <<>>)
        IN  /\ \A i \in 1..(Len(h) - 1) : h[i].sequence < h[i + 1].sequence
            /\ Range(stored) \subseteq Range(h)

\* C7: an append that is accepted carries a sequence above every sequence
\* already stored for the operation; a duplicate or lower one leaves the log
\* as it was.
C7_RejectsOutOfOrder ==
    [][\A op \in Ops :
          LET old == DictGet(ws_messages, op, <<>>)
              new == DictGet(ws_messages', op, <<>>)
          IN  Len(new) > Len(old) =>
                  \A i \in 1..Len(old) : old[i].sequence < new[Len(new)].sequence]_vars


\* a replay_messages call that has sent its last message to a connection
\* that is still admitted and whose transport never broke
FinishedReplay(t) ==
    /\ t.kind = "replay"
    /\ t.messages = <<>>
    /\ t.connection_id \in connections
    /\ transport[t.connection_id] = "open"

\* the last n entries of a sequence
Suffix(s, n) == SubSeq(s, Len(s) - n + 1, Len(s))

\* C2: replay_messages(c, X, n) to an admitted connection sends exactly the
\* messages of X retained at the call whose sequence is above n, each once,
\* in ascending sequence order, puts nothing else on the connection and
\* raises nothing, also when part of the history was pruned before.
C2_ReplaySendsExactlyLaterMessages ==
    \A t \in tasks :
        FinishedReplay(t) =>
            /\ \A i \in 1..Len(t.sent) :
                  /\ t.sent[i].sequence > t.from_sequence
                  /\ t.sent[i] \in Range(t.retained)
            /\ \A i \in 1..(Len(t.sent) - 1) :
                  t.sent[i].sequence <= t.sent[i + 1].sequence
            /\ \A i \in 1..Len(t.retained) :
                  t.retained[i].sequence > t.from_sequence =>
                      Cardinality({j \in 1..Len(t.sent) : t.sent[j] = t.retained[i]}) = 1
            /\ Len(received[t.connection_id]) >= Len(t.sent)
            /\ Suffix(received[t.connection_id], Len(t.sent)) = t.sent
            /\ raised = {}

\* a finished replay that sent part of a history stored out of sequence order
C2_Witness ==
    \E t \in tasks :
        /\ FinishedReplay(t)
        /\ Len(t.sent) >= 1
        /\ Len(t.sent) < Len(t.retained)
        /\ t.retained[1].sequence > t.retained[Len(t.retained)].sequence

\* a finished replay after part of the operation's history was pruned
C2_WitnessPruned ==
    \E t \in tasks :
        /\ FinishedReplay(t)
        /\ Len(t.sent) >= 1
        /\ \E id \in DOMAIN fanout :
              /\ fanout[id].message.operation_id = t.operation_id
              /\ fanout[id].message.sequence > t.from_sequence
              /\ fanout[id].message \notin Range(t.retained)
              /\ fanout[id].message.timestamp < now

\* C3: with 0, 1 and 2 (the last one final) published before the connection
\* subscribed, a replay from -1 or from 0 (the default of the frame) sends all
\* three in order.
C3_ReplayFromStartDeliversAll ==
    \A t \in tasks :
        ( /\ FinishedReplay(t)
          /\ t.from_sequence \in {-1, 0}
          /\ Len(t.retained) = 3
          /\ \A i \in 1..3 : t.retained[i].sequence = i - 1
          /\ t.retained[3].is_final
          /\ Len(received[t.connection_id]) = Len(t.sent) )
        => t.sent = t.retained


\* no send_message call of broadcast id to connection c is still in flight
SendReturned(id, c) ==
    ~\E t \in tasks : t.kind = "bcast" /\ t.message_id = id /\ t.connection_id = c

\* C4: when the send of a broadcast to subscriber A has failed, a subscriber
\* B of the same broadcast that is still admitted with a working transport
\* has the message as soon as its own send has returned.
C4_FanoutIsolation ==
    \A id \in DOMAIN fanout :
        \A A \in fanout[id].subscriber_ids, B \in fanout[id].subscriber_ids :
            ( /\ A # B
              /\ A \in fanout[id].failed
              /\ SendReturned(id, B)
              /\ B \in connections
              /\ transport[B] = "open" )
            => fanout[id].message \in Range(received[B])

\* a broadcast to two subscribers: the send to one failed, the other got it
C4_Witness ==
    \E id \in DOMAIN fanout :
        \E A \in fanout[id].subscriber_ids, B \in fanout[id].subscriber_ids :
            /\ A # B
            /\ A \in fanout[id].failed
            /\ SendReturned(id, B)
            /\ B \in connections
            /\ transport[B] = "open"
            /\ fanout[id].message \in Range(received[B])

\* connection c is in no subscriber set
Unsubscribed(c) ==
    \A op \in DOMAIN operation_subscriptions : c \notin operation_subscriptions[op]

\* C5: the step that handles a failed send (of a broadcast or of a replay)
\* leaves the connection out of the connection map and of every subscriber
\* set and puts no retry of the message in flight; a connection that was
\* removed is sent nothing afterwards.
C5_FailedSendDisconnects ==
    [][\A c \in Conns :
          /\ \A t \in tasks :
                (t.connection_id = c /\ t.failing /\ t \notin tasks') =>
                    /\ c \notin connections'
                    /\ c \notin connection_sessions'
                    /\ Unsubscribed(c)'
                    /\ received'[c] = received[c]
                    /\ \A u \in tasks' \ tasks :
                          u.connection_id = c =>
                              /\ u.messages = Tail(t.messages)
                              /\ ~u.failing
          /\ disconnect_calls[c] > 0 => received'[c] = received[c]]_vars

\* a broadcast whose send to a subscriber failed; the subscriber is removed
C5_Witness ==
    \E id \in DOMAIN fanout :
        /\ fanout[id].failed # {}
        /\ \A c \in fanout[id].failed :
              /\ c \notin connections
              /\ Unsubscribed(c)
              /\ fanout[id].message \notin Range(received[c])

\* C6: no broadcast_to_operation call ends by raising, whichever sends fail;
\* it returns once all its sends have returned, and its message is in the
\* history.
C6_PublishNeverRaises ==
    \A id \in DOMAIN fanout :
        /\ bresult[id] \in {"running", "returned"}
        /\ (\A c \in Conns : SendReturned(id, c)) => bresult[id] = "returned"
        /\ fanout[id].message
               \in Range(DictGet(ws_messages, fanout[id].message.operation_id, <<>>))
        /\ raised = {}

\* a broadcast that returned although every send of it failed
C6_Witness ==
    \E id \in DOMAIN fanout :
        /\ bresult[id] = "returned"
        /\ fanout[id].subscriber_ids # {}
        /\ fanout[id].failed = fanout[id].subscriber_ids
        /\ fanout[id].message
               \in Range(DictGet(ws_messages, fanout[id].message.operation_id, <<>>))

\* the acknowledged sequence the code holds for connection c and operation
\* op: the session has one field for all operations
AcknowledgedSequence(c, op) == ws_sessions[c].acknowledged_sequence

\* C8: after any acknowledge frames, the acknowledged sequence of a
\* connection, for every operation, is the highest value acknowledged so far.
C8_AckIsRunningMaximum ==
    \A c \in DOMAIN ws_sessions, op \in Ops :
        ack_high[c] >= 0 => AcknowledgedSequence(c, op) = ack_high[c]

\* the latest acknowledge frame carried less than an earlier one
C8_Witness ==
    \E c \in DOMAIN ws_sessions :
        /\ ack_last[c] >= 0
        /\ ack_last[c] < ack_high[c]
        /\ AcknowledgedSequence(c, "opA") = ack_high[c]

\* C9: an acknowledge frame for one operation leaves the acknowledged
\* sequence of the connection's other operations as it was.
C9_AckPerOperation ==
    [][\A c \in Conns, op \in Ops, s \in AckValues :
          FrameAcknowledge(c, op, s) =>
              \A other \in Ops \ {op} :
                  AcknowledgedSequence(c, other)' = AcknowledgedSequence(c, other)]_vars

\* the registry and the stored session as a disconnect(c) call leaves them
Removed(c) ==
    /\ c \notin connections
    /\ c \notin connection_sessions
    /\ Unsubscribed(c)
    /\ c \in DOMAIN ws_sessions => ~ws_sessions[c].is_connected

\* a step that calls disconnect(c): the handler's finally block or the
\* except branch of send_message
DisconnectStep(c) ==
    \/ HandlerFinally(c)
    \/ \E t \in tasks : t.connection_id = c /\ SendFailed(t)

\* C10: a disconnect(c) call made when an earlier one has already removed c
\* raises nothing and changes neither the connection map, the subscriber
\* sets nor the stored session.
C10_DisconnectIdempotent ==
    [][\A c \in Conns :
          (disconnect_calls[c] > 0 /\ Removed(c) /\ DisconnectStep(c)) =>
              /\ UNCHANGED registry
              /\ raised' = {}]_vars

\* disconnect was called twice for a connection
C10_Witness ==
    \E c \in Conns :
        /\ disconnect_calls[c] = 2
        /\ Removed(c)
        /\ raised = {}

\* C11: unsubscribe_from_operation(c, op) for a connection that is not in
\* op's subscriber set (never subscribed, already unsubscribed, removed, or op
\* without any entry) raises nothing and changes neither the subscriber sets
\* nor the stored sessions.
C11_UnsubscribeIdempotent ==
    [][\A c \in Conns, op \in Ops :
          ( /\ c \notin DictGet(operation_subscriptions, op, {})
            /\ FrameUnsubscribe(c, op) )
          => /\ UNCHANGED operation_subscriptions
             /\ UNCHANGED ws_sessions
             /\ raised' = {}]_vars

\* how often op is in the subscription list of c's stored session
Occurrences(sessions, c, op) ==
    Cardinality({i \in 1..Len(sessions[c].active_operations) :
                    sessions[c].active_operations[i] = op})

\* the pair is recorded on both sides
SubscribedBothSides(c, op) ==
    /\ c \in DictGet(operation_subscriptions, op, {})
    /\ c \in DOMAIN ws_sessions
    /\ op \in Range(ws_sessions[c].active_operations)

\* C12: subscribe_to_operation(c, op) leaves c in op's subscriber set and op
\* exactly once in the subscription list of c's session, raises nothing, and
\* changes neither side when the pair was already recorded on both.
C12_SubscribeIdempotent ==
    [][\A c \in Conns, op \in Ops :
          FrameSubscribe(c, op) =>
              /\ c \in DictGet(operation_subscriptions', op, {})
              /\ Occurrences(ws_sessions', c, op) = 1
              /\ SubscribedBothSides(c, op) =>
                     UNCHANGED <<operation_subscriptions, ws_sessions>>
              /\ raised' = {}]_vars

\* a connection that subscribed to both operations, was removed by a failed
\* send and subscribed to the first again: the pair is on both sides and the
\* session lists each operation once
C12_Witness ==
    \E c \in Conns :
        /\ SubscribedBothSides(c, "opA")
        /\ Occurrences(ws_sessions, c, "opA") = 1
        /\ Occurrences(ws_sessions, c, "opB") = 1
        /\ ~ws_sessions[c].is_connected

\* C13: every step that runs disconnect(c) leaves c out of the connection
\* map, out of the connection-to-session map and out of the subscriber set
\* of every operation, whatever it was subscribed to.
C13_RemoveIsComplete ==
    [][\A c \in Conns :
          DisconnectStep(c) =>
              /\ c \notin connections'
              /\ c \notin connection_sessions'
              /\ \A op \in Ops : c \notin DictGet(operation_subscriptions', op, {})]_vars

\* a removed connection whose session still lists the two operations it was
\* subscribed to
C13_Witness ==
    \E c \in Conns :
        /\ disconnect_calls[c] >= 1
        /\ c \notin connections
        /\ Unsubscribed(c)
        /\ c \in DOMAIN ws_sessions
        /\ Len(ws_sessions[c].active_operations) = 2

\* the age of a message, in minutes
Age(m) == now - m.timestamp

\* the messages of op in the history store
Stored(store, op) == Range(DictGet(store, op, <<>>))

\* C14: after a prune no message that was older than the retention window
\* at that prune is in the history, and the prune keeps every younger one; a
\* message once pruned stays absent from the history; a replay started later
\* selects only messages still stored; and the prune leaves every Operation
\* record as it was.
C14_Retention ==
    /\ [](last_cleanup >= 0 =>
             \A op \in Ops :
                 \A m \in Range(ReadFromStart(op)) :
                     ~(last_cleanup - m.timestamp > MESSAGE_RETENTION_MINUTES))
    /\ [][/\ Cleanup =>
                /\ \A op \in Ops :
                      \A m \in Stored(ws_messages, op) :
                          Age(m) < MESSAGE_RETENTION_MINUTES =>
                              m \in Range(ReadFromStart(op))'
                /\ \A op \in Ops :
                      get_operation(operations', op) = get_operation(operations, op)
          /\ \A id \in DOMAIN fanout :
                LET m == fanout[id].message
                IN  m \notin Stored(ws_messages, m.operation_id) =>
                        m \notin Stored(ws_messages', m.operation_id)
          /\ \A c \in Conns, op \in Ops, frame \in ReplayFrames :
                FrameReplay(c, op, frame) =>
                    \A u \in tasks' \ tasks :
                        Range(u.messages) \subseteq Stored(ws_messages, op)]_vars

\* a message older than the window was pruned, a younger one was kept and is
\* all that a replay started after the prune has sent, and the Operation
\* record saved before is still there
C14_Witness ==
    \E old \in DOMAIN fanout, young \in DOMAIN fanout :
        /\ last_cleanup - fanout[old].message.timestamp > MESSAGE_RETENTION_MINUTES
        /\ last_cleanup - fanout[young].message.timestamp < MESSAGE_RETENTION_MINUTES
        /\ fanout[young].message.timestamp <= last_cleanup
        /\ Stored(ws_messages, "opA") = {fanout[young].message}
        /\ get_operation(operations, "opA") = Operation("COMPLETED", "result")
        /\ \E t \in tasks :
              /\ FinishedReplay(t)
              /\ t.retained = <<fanout[young].message>>
              /\ t.sent = t.retained

\* how often message m was written to connection c
Deliveries(c, m) == Cardinality({i \in 1..Len(received[c]) : received[c][i] = m})

\* C15: when a broadcast made while both connections were subscribed has
\* returned with no failed send and both are still admitted, each of them has received the message (the
\* same message_id and sequence) exactly once.
C15_BothReceiveSameMessage ==
    \A id \in DOMAIN fanout :
        ( /\ bresult[id] = "returned"
          /\ fanout[id].subscribed = Conns
          /\ fanout[id].failed = {}
          /\ Conns \subseteq connections )
        => \A c \in Conns :
               /\ Deliveries(c, fanout[id].message) = 1
               /\ \E i \in 1..Len(received[c]) :
                     /\ received[c][i].message_id = id
                     /\ received[c][i].sequence = fanout[id].message.sequence

\* two broadcasts, each received once by both subscribers
C15_Witness ==
    /\ Cardinality(DOMAIN fanout) = 2
    /\ \A id \in DOMAIN fanout :
          /\ bresult[id] = "returned"
          /\ fanout[id].subscribed = Conns
          /\ fanout[id].failed = {}
          /\ \A c \in Conns : Deliveries(c, fanout[id].message) = 1
    /\ Conns \subseteq connections

\* C16: the messages of one operation written to a connection by live
\* broadcast carry non-decreasing sequence numbers in the order of delivery,
\* however the publish calls of the workflows interleave.
C16_LiveOrdering ==
    \A c \in Conns :
        \A i \in 1..Len(received[c]), j \in 1..Len(received[c]) :
            ( /\ i < j
              /\ received[c][i].operation_id = received[c][j].operation_id )
            => received[c][i].sequence <= received[c][j].sequence

\* a message with is_final=True has been published for op
FinalPublished(op) ==
    \E id \in DOMAIN fanout :
        /\ fanout[id].message.operation_id = op
        /\ fanout[id].message.is_final

\* C17: once a final message has been published for an operation, no step
\* publishes another message for it: nothing is appended to its history and
\* no new message of it is handed to the subscribers.
C17_FinalIsTerminal ==
    [][\A op \in Ops :
          FinalPublished(op) =>
              /\ Stored(ws_messages', op) \subseteq Stored(ws_messages, op)
              /\ \A id \in (DOMAIN fanout') \ (DOMAIN fanout) :
                    fanout'[id].message.operation_id # op]_vars

\* C18: the sequence numbers a generate request has stamped so far are
\* 0, 1, 2, ... without a gap, on the success path and on the failure path.
C18_ProducerSequencesDense ==
    \A r \in Requests :
        \A i \in 1..Len(workflow[r].emitted) : workflow[r].emitted[i] = i - 1

\* C19: subscribe_to_operation and replay_messages for a connection that is
\* not in the connection map raise nothing and leave the subscriber sets, the
\* connection map and the history as they were.
C19_UnknownConnectionNoOp ==
    [][\A c \in Conns, op \in Ops :
          c \notin connections =>
              /\ FrameSubscribe(c, op) =>
                     /\ UNCHANGED <<operation_subscriptions, connections, ws_messages>>
                     /\ raised' = {}
              /\ \A frame \in ReplayFrames :
                     FrameReplay(c, op, frame) =>
                         /\ UNCHANGED <<operation_subscriptions, connections,
                                        ws_messages, received>>
                         /\ raised' = {}]_vars

\* C20: the count a replay_messages call returns is the number of messages
\* the call has written to the requesting connection.
C20_ReplayCountIsSent ==
    \A t \in tasks :
        (t.kind = "replay" /\ t.messages = <<>>) => t.count = Len(t.sent)


\* the operations that have at least one subscriber
Subscribed == {op \in Ops : \E c \in Conns :
                  c \in DictGet(operation_subscriptions, op, {})}

\* C21: no operation is ever kept with an empty subscriber set, and every
\* answer of the introspection endpoint lists exactly the operations that have
\* a subscriber and counts exactly the admitted connections, changing nothing
\* but the answer itself.
C21_IntrospectionAccurate ==
    /\ [](\A op \in DOMAIN operation_subscriptions :
              operation_subscriptions[op] # {})
    /\ [][stats' # stats
          => /\ stats'.active_operations = Subscribed
             /\ stats'.active_connections = Cardinality(connections)
             /\ UNCHANGED <<registry, message_queues, ws_messages, transport, pc,
                            tasks, received, next_id, now, fanout, bresult,
                            raised, operations, auth>>]_vars

\* C21 witness: with one connection gone and one operation emptied, the
\* endpoint answers one connection and the one operation still subscribed.
C21_Witness ==
    /\ stats = [active_connections |-> 1, active_operations |-> {"opB"}]
    /\ Cardinality(connections) = 1
    /\ Subscribed = {"opB"}
    /\ \E c \in Conns : pc[c] = "done" /\ c \in DOMAIN ws_sessions
    /\ \E c \in connections : Range(ws_sessions[c].active_operations) = {"opB"}


\* C22: a call on a session id that began after a logout of that id had
\* returned True is answered None by get_session and by refresh_session, and
\* False by logout.
C22_LogoutIsFinal ==
    auth_response.after_logout
        => auth_response.result = (IF auth_response.call = "logout"
                                   THEN "False" ELSE "None")

\* C23: a successful refresh returns a session under a new session id, and
\* the old id is no longer stored as a valid session.
C23_RefreshRotates ==
    (auth_response.call = "refresh_session" /\ auth_response.result # "None")
        => /\ auth_response.result # auth_response.session_id
           /\ ~storage_get_session(auth_sessions, session_objects,
                                   auth_response.session_id, now)

\* C24: once get_session has answered on a stored session past its expiry,
\* the answer is None and storage no longer holds that session.
C24_ExpiredLookupDeletes ==
    (auth_response.call = "get_session" /\ auth_response.expired)
        => /\ auth_response.result = "None"
           /\ auth_response.session_id \notin auth_sessions


\* C25: every message of a broadcast is in the history store from the call
\* on, so before any of its sends is attempted, also when the operation has no
\* subscriber; and a replay that starts later selects every published message
\* of its operation above its from_sequence, whatever became of the sends.
C25_RecordPrecedesDelivery ==
    /\ [](\A id \in DOMAIN fanout :
              fanout[id].message
                  \in Stored(ws_messages, fanout[id].message.operation_id))
    /\ [](\A t \in tasks :
              t.kind = "bcast" /\ t.messages # <<>>
                  => Head(t.messages) \in Stored(ws_messages, t.operation_id))
    /\ [][\A t \in tasks' \ tasks :
              t.kind = "replay" /\ t.sent = <<>> /\ t.count = Len(t.messages)
                  => \A id \in DOMAIN fanout :
                        (/\ fanout[id].message.operation_id = t.operation_id
                         /\ fanout[id].message.sequence > t.from_sequence)
                            => fanout[id].message \in Range(t.messages)]_vars

\* C25 witness: a replay has delivered to c2 a message that was published to
\* no subscriber and a message whose send to c1 had failed.
C25_Witness ==
    \E t \in tasks :
        /\ t.kind = "replay" /\ t.connection_id = "c2"
        /\ \E id \in DOMAIN fanout :
              /\ fanout[id].subscriber_ids = {}
              /\ fanout[id].message \in Range(t.sent)
        /\ \E id \in DOMAIN fanout :
              /\ fanout[id].failed = {"c1"}
              /\ fanout[id].message \in Range(t.sent)
        /\ Range(t.sent) \subseteq Range(received["c2"])


\* every send to c so far was written to its websocket, and none is pending
NoSendFailed(c) ==
    /\ c \in connections
    /\ transport[c] = "open"
    /\ \A t \in tasks : t.kind = "bcast" => t.connection_id # c
    /\ \A id \in DOMAIN fanout : c \notin fanout[id].failed

\* C26: when a subscriber's replay from n has sent its last message and no
\* send to the subscriber has failed or is pending, the subscriber has
\* received every message of the operation with a sequence above n that was
\* in the history when the replay began or was published after the subscribe.
C26_NoLossAtBoundary ==
    \A t \in tasks :
        (/\ t.kind = "replay"
         /\ t.messages = <<>>
         /\ NoSendFailed(t.connection_id))
            => \A id \in DOMAIN fanout :
                  (/\ fanout[id].message.operation_id = t.operation_id
                   /\ fanout[id].message.sequence > t.from_sequence
                   /\ \/ fanout[id].message \in Range(t.retained)
                      \/ t.connection_id \in fanout[id].subscribed)
                      => fanout[id].message \in Range(received[t.connection_id])

\* C26 witness: a finished replay of the whole history during which a message
\* was published and written live, ahead of a replayed one.
C26_Witness ==
    \E t \in tasks :
        /\ t.kind = "replay" /\ t.messages = <<>> /\ t.from_sequence = -1
        /\ NoSendFailed("c1")
        /\ \E i, j \in DOMAIN received["c1"] :
              /\ i < j
              /\ received["c1"][i] \notin Range(t.retained)
              /\ received["c1"][j] \in Range(t.sent)
              /\ received["c1"][j] \notin Range(SubSeq(received["c1"], 1, j - 1))


\* C27: the registry lock is free whenever a send is in progress; the gathered
\* sends of a broadcast go to members of the subscriber list copied at the
\* call, which is the subscriber set as it was then; and later changes of the
\* subscriber set create no send for a message already published.
C27_SendsOutsideLock ==
    /\ []((\E t \in tasks : t.sending) => lock = "none")
    /\ [](\A t \in tasks :
              t.kind = "bcast"
                  => t.connection_id \in fanout[t.message_id].subscriber_ids)
    /\ [](\A id \in DOMAIN fanout :
              fanout[id].subscriber_ids = fanout[id].subscribed)
    /\ [][\A t \in tasks' \ tasks :
              (t.kind = "bcast" /\ ~t.sending /\ ~t.failing)
                  => t.message_id = next_id]_vars

\* C27 witness: a send to c2 is in progress with the lock free, for a message
\* whose snapshot has c2 although c2 has since unsubscribed.
C27_Witness ==
    \E t \in tasks :
        /\ t.kind = "bcast" /\ t.sending /\ t.connection_id = "c2"
        /\ lock = "none"
        /\ "c2" \in fanout[t.message_id].subscriber_ids
        /\ "c2" \notin DictGet(operation_subscriptions, "opA", {})
        /\ "c2" \in connections


\* the send of broadcast id to c is in progress and does not return
Stalled(id, c) ==
    \E t \in tasks : /\ t.kind = "bcast" /\ t.message_id = id
                     /\ t.connection_id = c /\ t.sending

\* C28: once a broadcast to c1 and c2 has its send to c1 in progress, never to
\* return, c2 is eventually written the message of that broadcast.
C28_SlowSubscriberDoesNotBlock ==
    \A id \in 1..MaxSlowPublish :
        (/\ id \in DOMAIN fanout
         /\ fanout[id].subscriber_ids = {"c1", "c2"}
         /\ Stalled(id, "c1"))
            ~> (/\ id \in DOMAIN fanout
                /\ fanout[id].message \in Range(received["c2"]))

\* C28 witness: c2 has been written the message of a broadcast whose send to
\* c1 is still in progress, and the broadcast has not returned.
C28_Witness ==
    \E id \in DOMAIN fanout :
        /\ fanout[id].subscriber_ids = {"c1", "c2"}
        /\ Stalled(id, "c1")
        /\ fanout[id].message \in Range(received["c2"])
        /\ bresult[id] = "running"


\* the transport of an admitted connection has ended, or its handler is on
\* its way out
Ended(c) ==
    /\ pc[c] # "idle"
    /\ transport[c] = "closed" \/ pc[c] = "closing"

\* C29: a connection whose handler has finished is in no part of the
\* registry, and a connection whose transport has ended or whose handler is
\* leaving its loop is, from some point on, for ever out of the registry.
C29_EventualRemoval ==
    /\ [](\A c \in Conns : pc[c] = "done" => Removed(c))
    /\ \A c \in Conns : Ended(c) ~> [](pc[c] = "done" /\ Removed(c))

\* C29 witness: the handler has finished after its client went away and a
\* broadcast send had failed, and the connection, once subscribed, is in no
\* part of the registry.
C29_Witness ==
    /\ pc["c1"] = "done"
    /\ Removed("c1")
    /\ transport["c1"] = "closed"
    /\ \E id \in DOMAIN fanout : "c1" \in fanout[id].failed
    /\ "opA" \in Range(ws_sessions["c1"].active_operations)
    /\ disconnect_calls["c1"] = 2


\* C30: a connection that a broadcast has written a message to has the
\* sequence of the latest such message as its session's last_message_sequence.
C30_LastSentSequenceRecorded ==
    \A c \in Conns :
        (c \in DOMAIN ws_sessions /\ received[c] # <<>>)
            => ws_sessions[c].last_message_sequence
                   = received[c][Len(received[c])].sequence


\* OperationStatus: the statuses that end an operation
TerminalStatus == {"COMPLETED", "FAILED", "CANCELLED"}

\* C31: once an operation's stored status is terminal, no step changes it.
C31_TerminalStatusIsFinal ==
    [][\A op \in Ops :
          get_operation(operations, op).status \in TerminalStatus
              => get_operation(operations', op).status
                     = get_operation(operations, op).status]_vars


\* connection c is in no part of the registry, has no stored session, no
\* send in flight and nothing written to it
NeverAdmitted(c) ==
    /\ c \notin connections
    /\ c \notin connection_sessions
    /\ Unsubscribed(c)
    /\ c \notin DOMAIN ws_sessions
    /\ received[c] = <<>>
    /\ \A t \in tasks : t.connection_id # c

\* C32: an endpoint call whose session id get_session does not accept ends
\* closed with the connection in no part of the registry, and a connection
\* so rejected is never subscribed, never sent to and never written to.
C32_InvalidSessionNeverAdmitted ==
    /\ [](\A c \in Conns : pc[c] = "rejected"
              => NeverAdmitted(c) /\ transport[c] = "closed")
    /\ [][\A c \in Conns, s \in SessionIds :
              (/\ WebsocketEndpoint(c, s)
               /\ ~storage_get_session(auth_sessions, session_objects, s, now))
                  => pc'[c] = "rejected" /\ NeverAdmitted(c)']_vars

\* C32 witness: c1 was rejected with a logged-out or expired session while
\* c2, admitted, has been written the broadcast.
C32_Witness ==
    /\ pc["c1"] = "rejected"
    /\ NeverAdmitted("c1")
    /\ \E s \in SessionIds : session_objects[s].created
    /\ "c2" \in connections
    /\ received["c2"] # <<>>


\* C33: every connection id in a subscriber set is a key of the connection
\* map.
C33_SubscribersAreAdmitted ==
    \A op \in DOMAIN operation_subscriptions :
        operation_subscriptions[op] \subseteq connections


\* C34: a live-broadcast message of an operation is delivered to a connection
\* only while the connection is in the operation's subscriber set, so none
\* arrives once unsubscribe_from_operation has returned, whatever broadcasts
\* took their subscriber list before.
C34_NoDeliveryAfterUnsubscribe ==
    [][\A c \in Conns :
           Len(received'[c]) > Len(received[c])
               => LET m == received'[c][Len(received'[c])]
                  IN  c \in DictGet(operation_subscriptions, m.operation_id, {})]_vars


\* a replay_messages call to c that has not sent all its messages
Replaying(c) ==
    \E t \in tasks : t.kind = "replay" /\ t.connection_id = c /\ t.messages # <<>>

\* C35: every broadcast_to_operation call that has gathered its sends returns,
\* every replay_messages call gets to the end of its messages, and the
\* registry lock is free whenever a failed send is about to call disconnect.
C35_CallsTerminate ==
    /\ [](\A t \in tasks : t.failing => lock = "none")
    /\ \A id \in 1..MaxTerminationPublish :
           (id \in DOMAIN bresult /\ bresult[id] = "running")
               ~> (id \in DOMAIN bresult /\ bresult[id] = "returned")
    /\ \A c \in Conns : Replaying(c) ~> ~Replaying(c)

\* C35 witness: a broadcast with two sends has returned after its send to c1
\* failed and the except branch disconnected c1, and a replay to c1 has come
\* to its end.
C35_Witness ==
    /\ \E id \in DOMAIN fanout :
           /\ bresult[id] = "returned"
           /\ fanout[id].subscriber_ids = {"c1", "c2"}
           /\ "c1" \in fanout[id].failed
    /\ "c1" \notin connections
    /\ \E t \in tasks : /\ t.kind = "replay" /\ t.connection_id = "c1"
                        /\ t.count > 0 /\ t.messages = <<>>


\* C36: between the calls, the manager's in-memory queue of every operation
\* holds the same messages as the storage history of that operation.
C36_HistoryCopiesAgree ==
    \A op \in Ops :
        DictGet(message_queues, op, <<>>) = DictGet(ws_messages, op, <<>>)


\* C37: between the calls, every connection in the manager's connection map
\* has a stored WebSocketSession, and a stored session has is_connected true
\* exactly when its connection id is in the connection map.
C37_SessionFlagMatchesRegistry ==
    /\ connections \subseteq DOMAIN ws_sessions
    /\ \A c \in DOMAIN ws_sessions :
           ws_sessions[c].is_connected <=> c \in connections

\* C37 witness: a failed broadcast send has disconnected c1, its handler has
\* since saved the session again through a subscribe frame, and the stored
\* flag is false with c1 out of the connection map.
C37_Witness ==
    /\ "c1" \in DOMAIN ws_sessions
    /\ ~ws_sessions["c1"].is_connected
    /\ "c1" \notin connections
    /\ \E id \in DOMAIN fanout : "c1" \in fanout[id].failed
    /\ "c1" \in DictGet(operation_subscriptions, "opB", {})
    /\ "opB" \in Range(ws_sessions["c1"].active_operations)


\* the messages published so far that are in the list of their operation
RetainedMessages(store) ==
    {id \in DOMAIN fanout :
         fanout[id].message \in
             Range(DictGet(store, fanout[id].message.operation_id, <<>>))}

\* C38: neither the storage history nor the in-memory queues ever hold a key
\* with an empty list, so an operation whose messages were all pruned has no
\* key left, and the total message count of the storage statistics is the
\* number of messages still retained.
C38_NoEmptyHistoryKey ==
    /\ \A op \in DOMAIN ws_messages : ws_messages[op] # <<>>
    /\ \A op \in DOMAIN message_queues : message_queues[op] # <<>>
    /\ total_ws_messages(ws_messages) = Cardinality(RetainedMessages(ws_messages))

\* C38 witness: a prune has removed the only message of opA, opA has no key
\* in either copy, and opB still has its message in both.
C38_Witness ==
    /\ last_cleanup >= 0
    /\ \E id \in DOMAIN fanout : fanout[id].message.operation_id = "opA"
    /\ "opA" \notin DOMAIN ws_messages
    /\ "opA" \notin DOMAIN message_queues
    /\ "opB" \in DOMAIN ws_messages
    /\ "opB" \in DOMAIN message_queues

====
